---- MODULE Spec2Model ----
(***************************************************************************)
(* Field extraction of slick-scan: extractFields and both variants of      *)
(* extractFieldsV2, modelled on character strings.                         *)
(*                                                                         *)
(* A JavaScript string is a sequence of one-character strings.  A regular  *)
(* expression literal of the source is a sequence of nodes, matched by a   *)
(* backtracking matcher with the priorities of the ECMAScript matcher      *)
(* (greedy and lazy quantifiers, ordered alternatives, leftmost match).    *)
(* Confidences are held in hundredths (1.0 = 100, 0.95 = 95, ...).         *)
(* Time is counted in whole days since 01/01/1970 (local time).            *)
(***************************************************************************)
EXTENDS Integers, Sequences, FiniteSets, TLC

VARIABLES given, text, now, rFields, rV2, prevV2, rHook, hook, wc

vars == <<given, text, now, rFields, rV2, prevV2, rHook, hook, wc>>

-----------------------------------------------------------------------------
(* Characters and character classes                                        *)

UpperSeq == <<"A","B","C","D","E","F","G","H","I","J","K","L","M",
              "N","O","P","Q","R","S","T","U","V","W","X","Y","Z">>
LowerSeq == <<"a","b","c","d","e","f","g","h","i","j","k","l","m",
              "n","o","p","q","r","s","t","u","v","w","x","y","z">>
DigitSeq == <<"0","1","2","3","4","5","6","7","8","9">>

Range(f) == {f[k] : k \in DOMAIN f}

Digit  == Range(DigitSeq)
Letter == Range(UpperSeq) \cup Range(LowerSeq)
Space  == {" ", "\n", "\t"}
Word   == Letter \cup Digit \cup {"_"}

(* The alphabet of the modelled inputs: every character of a text.         *)
Alphabet == Letter \cup Digit \cup Space \cup {"/", "-", ":", ".", "_", "~"}

ToLowerChar(c) ==
  IF c \in Range(UpperSeq) THEN LowerSeq[CHOOSE k \in 1..26 : UpperSeq[k] = c] ELSE c
ToUpperChar(c) ==
  IF c \in Range(LowerSeq) THEN UpperSeq[CHOOSE k \in 1..26 : LowerSeq[k] = c] ELSE c

-----------------------------------------------------------------------------
(* Regular expressions                                                     *)

(* hi of an unbounded quantifier (plus, star): above any string's length.   *)
Unbounded == 1000 * 1000

Node(t, cs, lo, hi, lazy, alts, g, w) ==
  [t |-> t, cs |-> cs, lo |-> lo, hi |-> hi, lazy |-> lazy, alts |-> alts, g |-> g,
   w |-> w]

Rep(cs, lo, hi)  == <<Node("set", cs, lo, hi, FALSE, <<>>, 0, <<>>)>>
One(cs)          == Rep(cs, 1, 1)
Plus(cs)         == Rep(cs, 1, Unbounded)
Star(cs)         == Rep(cs, 0, Unbounded)
Alt(alts)        == <<Node("alt", {}, 0, 0, FALSE, alts, 0, <<>>)>>
Grp(g, re)       == <<Node("open", {}, 0, 0, FALSE, <<>>, g, <<>>)>> \o re
                    \o <<Node("close", {}, 0, 0, FALSE, <<>>, g, <<>>)>>
Bol              == <<Node("bol", {}, 0, 0, FALSE, <<>>, 0, <<>>)>>
Eol              == <<Node("eol", {}, 0, 0, FALSE, <<>>, 0, <<>>)>>
Wb               == <<Node("wb", {}, 0, 0, FALSE, <<>>, 0, <<>>)>>

(* A literal under the i flag: for each position the set of the letter's   *)
(* two cases.                                                              *)
LitI(w) == <<Node("lit", {}, 0, 0, FALSE, <<>>, 0,
                  [k \in 1..Len(w) |-> {ToLowerChar(w[k]), ToUpperChar(w[k])}])>>

NoCaps == [g \in 1..2 |-> [from |-> 0, to |-> 0]]
NoMatch == [ok |-> FALSE, start |-> 0, end |-> 0, caps |-> NoCaps]

Min(S) == CHOOSE x \in S : \A y \in S : x <= y
Max(S) == CHOOSE x \in S : \A y \in S : x >= y

IsWordAt(s, i) == i >= 1 /\ i <= Len(s) /\ s[i] \in Word

(* The number of characters of s from i on that lie in cs, at most hi.     *)
Run(cs, s, i, hi) ==
  LET stops == {j \in i..Len(s) : s[j] \notin cs}
      len   == IF stops = {} THEN Len(s) + 1 - i ELSE Min(stops) - i
  IN IF len > hi THEN hi ELSE len

LitAt(w, s, i) ==
  i + Len(w) - 1 <= Len(s) /\ \A k \in 1..Len(w) : s[i + k - 1] \in w[k]

RECURSIVE Can(_, _, _)
(* Whether re can match s from position i.                                 *)
Can(re, s, i) ==
  IF re = <<>> THEN TRUE
  ELSE LET n == Head(re)
           rest == Tail(re)
       IN CASE n.t = "set" ->
                 \E k \in n.lo..Run(n.cs, s, i, n.hi) : Can(rest, s, i + k)
            [] n.t = "lit" -> LitAt(n.w, s, i) /\ Can(rest, s, i + Len(n.w))
            [] n.t = "alt" -> \E j \in 1..Len(n.alts) : Can(n.alts[j] \o rest, s, i)
            [] n.t = "open" -> Can(rest, s, i)
            [] n.t = "close" -> Can(rest, s, i)
            [] n.t = "bol" -> i = 1 /\ Can(rest, s, i)
            [] n.t = "eol" -> i = Len(s) + 1 /\ Can(rest, s, i)
            [] n.t = "wb" -> IsWordAt(s, i - 1) # IsWordAt(s, i) /\ Can(rest, s, i)

(* The repetition count a quantifier settles on, and the alternative an    *)
(* alternation settles on, among those the rest can follow.                *)
Pick(oks, lazy) == IF lazy THEN Min(oks) ELSE Max(oks)

RECURSIVE M(_, _, _, _)
RECURSIVE MSet(_, _, _, _, _, _)
RECURSIVE MAlt(_, _, _, _, _, _)
(* re matched against s from position i: the first match in the matcher's  *)
(* order of preference (a greedy quantifier takes the longest repetition   *)
(* the rest can follow, a lazy one the shortest, an alternation its first  *)
(* alternative the rest can follow), or NoMatch.                           *)
M(re, s, i, caps) ==
  IF re = <<>> THEN [ok |-> TRUE, start |-> 0, end |-> i, caps |-> caps]
  ELSE LET n == Head(re)
           rest == Tail(re)
       IN CASE n.t = "set" ->
                 MSet(rest, s, i,
                      {k \in n.lo..Run(n.cs, s, i, n.hi) : Can(rest, s, i + k)},
                      n.lazy, caps)
            [] n.t = "lit" ->
                 IF LitAt(n.w, s, i) THEN M(rest, s, i + Len(n.w), caps) ELSE NoMatch
            [] n.t = "alt" ->
                 MAlt(n.alts, rest, s, i,
                      {j \in 1..Len(n.alts) : Can(n.alts[j] \o rest, s, i)}, caps)
            [] n.t = "open" ->
                 M(rest, s, i, [caps EXCEPT ![n.g] = [from |-> i, to |-> 0]])
            [] n.t = "close" ->
                 M(rest, s, i, [caps EXCEPT ![n.g].to = i])
            [] n.t = "bol" -> IF i = 1 THEN M(rest, s, i, caps) ELSE NoMatch
            [] n.t = "eol" -> IF i = Len(s) + 1 THEN M(rest, s, i, caps) ELSE NoMatch
            [] n.t = "wb" ->
                 IF IsWordAt(s, i - 1) # IsWordAt(s, i) THEN M(rest, s, i, caps)
                 ELSE NoMatch

MSet(rest, s, i, oks, lazy, caps) ==
  IF oks = {} THEN NoMatch ELSE M(rest, s, i + Pick(oks, lazy), caps)

MAlt(alts, rest, s, i, oks, caps) ==
  IF oks = {} THEN NoMatch ELSE M(alts[Min(oks)] \o rest, s, i, caps)

(* The match of re in s that starts at the least of starts.                *)
MatchAtFirst(re, s, starts) ==
  IF starts = {} THEN NoMatch
  ELSE [M(re, s, Min(starts), NoCaps) EXCEPT !.start = Min(starts)]

(* The leftmost match of re in s at or after position p.                   *)
SearchFrom(re, s, p) == MatchAtFirst(re, s, {q \in p..(Len(s) + 1) : Can(re, s, q)})

(* String.prototype.match without the g flag, and RegExp.prototype.test.   *)
Match(re, s) == SearchFrom(re, s, 1)
Test(re, s) == Match(re, s).ok

(* match[0], and match[g] (Undefined when the group took no part).         *)
Undefined == <<"undefined">>
Whole(m, s) == SubSeq(s, m.start, m.end - 1)
Group(m, s, g) ==
  IF m.caps[g].from = 0 \/ m.caps[g].to = 0 THEN Undefined
  ELSE SubSeq(s, m.caps[g].from, m.caps[g].to - 1)

RECURSIVE MatchAllFrom(_, _, _)
RECURSIVE MatchAllNext(_, _, _)
(* String.prototype.match with the g flag: every match, left to right.     *)
MatchAllFrom(re, s, p) == MatchAllNext(re, s, SearchFrom(re, s, p))

MatchAllNext(re, s, r) ==
  IF ~r.ok THEN <<>>
  ELSE <<Whole(r, s)>> \o
       MatchAllFrom(re, s, IF r.end = r.start THEN r.end + 1 ELSE r.end)

MatchAll(re, s) == MatchAllFrom(re, s, 1)

-----------------------------------------------------------------------------
(* String methods                                                          *)

(* String.prototype.trim *)
Trim(s) ==
  LET inked == {k \in 1..Len(s) : s[k] \notin Space}
  IN IF inked = {} THEN <<>> ELSE SubSeq(s, Min(inked), Max(inked))

(* The k-th smallest element of a set of numbers.                          *)
Nth(S, k) == CHOOSE x \in S : Cardinality({y \in S : y < x}) = k - 1

(* String.prototype.split on a one-character separator out of cs *)
Split(cs, s) ==
  LET seps == {k \in 1..Len(s) : s[k] \in cs}
      n    == Cardinality(seps)
      From(j) == IF j = 1 THEN 1 ELSE Nth(seps, j - 1) + 1
      To(j)   == IF j = n + 1 THEN Len(s) ELSE Nth(seps, j) - 1
  IN [j \in 1..(n + 1) |-> SubSeq(s, From(j), To(j))]

RECURSIVE Join(_, _)
(* Array.prototype.join *)
Join(parts, sep) ==
  IF parts = <<>> THEN <<>>
  ELSE IF Len(parts) = 1 THEN parts[1]
  ELSE parts[1] \o sep \o Join(Tail(parts), sep)

(* padStart(2, '0') *)
PadStart2(s) == IF Len(s) = 0 THEN <<"0", "0">> ELSE IF Len(s) = 1 THEN <<"0">> \o s ELSE s
(* replace(/[^\d]/g, '') *)
DigitsOnly(s) == LET IsDigitChar(c) == c \in Digit IN SelectSeq(s, IsDigitChar)

RECURSIVE ToNumber(_)
(* The number a string of digits denotes. *)
ToNumber(s) ==
  IF s = <<>> THEN 0
  ELSE 10 * ToNumber(SubSeq(s, 1, Len(s) - 1))
       + (CHOOSE k \in 1..10 : DigitSeq[k] = s[Len(s)]) - 1

-----------------------------------------------------------------------------
(* The string literals of the source; Str.EnDash is U+2013, the en dash of *)
(* the range pattern.                                                      *)

Str ==
  [Name |-> <<"N","A","M","E">>,
   Dor |-> <<"D","O","R">>,
   Issue |-> <<"I","S","S","U","E">>,
   Valid |-> <<"V","A","L","I","D">>,
   SpousePartner |-> <<"S","P","O","U","S","E","/","P","A","R","T","N","E","R">>,
   Other |-> <<"O","T","H","E","R">>,
   Licence |-> <<"L","i","c","e","n","c","e">>,
   Title |-> <<"F","A","M","I","L","Y"," ","S","E","A","S","O","N"," ","L","I","C","E","N","C","E">>,
   Wae |-> <<"w","a","e">>,
   Srouserasmen |-> <<"s","r","o","u","s","e","r","a","s","m","e","n">>,
   Cance |-> <<"c","a","n","c","e">>,
   Comin |-> <<"C","o","m","i","n">>,
   Ets |-> <<"e","t","s">>,
   Rd |-> <<"R","d">>,
   Street |-> <<"S","t","r","e","e","t">>,
   Avenue |-> <<"A","v","e","n","u","e">>,
   Road |-> <<"R","o","a","d">>,
   LowerSpouse |-> <<"s","p","o","u","s","e">>,
   CommaSpace |-> <<","," ">>,
   RangeSep |-> <<" ","-"," ">>,
   Slash |-> <<"/">>,
   Twenty |-> <<"2","0">>,
   EnDash |-> "u2013",
   Newline |-> <<"\n">>,
   Blank |-> <<" ">>]

-----------------------------------------------------------------------------
(* The regular expression literals of the source                           *)

DateSep == {"/", "-"}

(* ReId without its word boundaries: /\d{6,8}/                             *)
ReIdUnbounded == Rep(Digit, 6, 8)

(* /\b\d{6,8}\b/ *)
ReId == Wb \o Rep(Digit, 6, 8) \o Wb

(* ReLabelOnly as it would be if NAME were the one label: /^(NAME)\s*$/i  *)
ReLabelOnlyName == Bol \o Grp(1, LitI(Str.Name)) \o Star(Space) \o Eol

(* /^(NAME|DOR|ISSUE|VALID|SPOUSE\/PARTNER|OTHER|Licence)\s*$/i *)
LabelAlts == <<LitI(Str.Name), LitI(Str.Dor), LitI(Str.Issue), LitI(Str.Valid),
  LitI(Str.SpousePartner), LitI(Str.Other), LitI(Str.Licence)>>

ReLabelOnly == Bol \o Grp(1, Alt(LabelAlts)) \o Star(Space) \o Eol

(* The patterns of extractFields and of the two extractFieldsV2, by name.   *)
Re ==
  LET NameChars == Letter \cup {" ", ".", "-"}
      LabelSep == Space \cup {":"}
      (* (?:\n|$) *)
      NlOrEnd == Alt(<<One({"\n"}), Eol>>)
      (* (?:\s+Rd|\s+Street|\s+Avenue|\s+Road) under the i flag *)
      StreetAlts == <<Plus(Space) \o LitI(Str.Rd), Plus(Space) \o LitI(Str.Street),
          Plus(Space) \o LitI(Str.Avenue), Plus(Space) \o LitI(Str.Road)>>
      (* /\d{1,2}[\/\-]\d{1,2}[\/\-]\d{2,4}/ *)
      ReDate == Rep(Digit, 1, 2) \o One(DateSep) \o Rep(Digit, 1, 2) \o One(DateSep)
          \o Rep(Digit, 2, 4)
  IN [
      Date |-> ReDate,
      (* /NAME[\s:]+([A-Za-z .-]+)(?:\n|$)/i *)
      NameLabel |-> LitI(Str.Name) \o Plus(LabelSep) \o Grp(1, Plus(NameChars)) \o NlOrEnd,
      (* /^([A-Za-z .-]+)\s+\d{6,8}$/ *)
      NameId |-> Bol \o Grp(1, Plus(NameChars)) \o Plus(Space) \o Rep(Digit, 6, 8) \o Eol,
      (* /^NAME\s*$/i *)
      NameOnly |-> Bol \o LitI(Str.Name) \o Star(Space) \o Eol,
      (* /^([A-Za-z .-]+)(?:\s+\d{6,8})?$/ *)
      NameNextLine |-> Bol \o Grp(1, Plus(NameChars))
          \o Alt(<<Plus(Space) \o Rep(Digit, 6, 8), <<>>>>) \o Eol,
      (* /SPOUSE\/PARTNER[\s:]+([A-Za-z .-]+)(?:\n|$)/i *)
      SpouseLabel |-> LitI(Str.SpousePartner) \o Plus(LabelSep) \o Grp(1, Plus(NameChars)) \o NlOrEnd,
      (* /^([A-Za-z .-]+)(?:\s+Rd|\s+Street|\s+Avenue|\s+Road)/i *)
      SpouseStreet |-> Bol \o Grp(1, Plus(NameChars)) \o Alt(StreetAlts),
      (* /\bDOR\b/i, /\bISSUE[D]?\b/i, /\bVALID\b/i *)
      DorWord |-> Wb \o LitI(Str.Dor) \o Wb,
      IssueWord |-> Wb \o LitI(Str.Issue) \o Rep({"d", "D"}, 0, 1) \o Wb,
      ValidWord |-> Wb \o LitI(Str.Valid) \o Wb,
      (* /(date)\s*[-–]\s*(date)/ *)
      DateRange |-> Grp(1, ReDate) \o Star(Space) \o One({"-", Str.EnDash}) \o Star(Space)
          \o Grp(2, ReDate),
      (* /^OTHER\s*$/i *)
      OtherOnly |-> Bol \o LitI(Str.Other) \o Star(Space) \o Eol,
      (* /^(NAME|DOR|ISSUE|VALID|SPOUSE\/PARTNER|OTHER|Licence|FAMILY SEASON LICENCE)\s*$/i *)
      SectionEnd |-> Bol \o Grp(1, Alt(LabelAlts \o <<LitI(Str.Title)>>)) \o Star(Space) \o Eol,
      (* /^[A-Za-z][A-Za-z\s\d-]*[A-Za-z\d]$/ *)
      BareName |-> Bol \o One(Letter) \o Star(Letter \cup Space \cup Digit \cup {"-"})
          \o One(Letter \cup Digit) \o Eol,
      (* /^(NAME|...|FAMILY SEASON LICENCE|wae|srouserasmen|cance|Comin|ets)\b/i *)
      KeywordStart |-> 
          Bol \o Grp(1, Alt(LabelAlts \o <<LitI(Str.Title), LitI(Str.Wae), LitI(Str.Srouserasmen),
          LitI(Str.Cance), LitI(Str.Comin), LitI(Str.Ets)>>)) \o Wb,
      (* /^SPOUSE\/PARTNER/i *)
      SpouseStart |-> Bol \o LitI(Str.SpousePartner),
      (* /\d{6,8}/ *)
      Digits |-> Rep(Digit, 6, 8),
      (* /(?:\s+Rd|\s+Street|\s+Avenue|\s+Road)/i *)
      Street |-> Alt(StreetAlts),
      (* /DOR[\s:]+([0-9\/]+)(?:\n|$)/i and /ISSUE[\s:]+([0-9\/]+)(?:\n|$)/i *)
      DorValue |-> LitI(Str.Dor) \o Plus(LabelSep) \o Grp(1, Plus(Digit \cup {"/"})) \o NlOrEnd,
      IssueValue |-> LitI(Str.Issue) \o Plus(LabelSep) \o Grp(1, Plus(Digit \cup {"/"})) \o NlOrEnd,
      (* /VALID[\s:]+([0-9\/\- ]+)(?:\n|$)/i *)
      ValidValue |-> LitI(Str.Valid) \o Plus(LabelSep)
          \o Grp(1, Plus(Digit \cup {"/", "-", " "})) \o NlOrEnd,
      (* /OTHER[\s]*\n([\s\S]+?)(?:\n\s*Licence|$)/i *)
      OtherBlock |-> LitI(Str.Other) \o Star(Space) \o One({"\n"})
          \o Grp(1, <<Node("set", Alphabet \cup {Str.EnDash}, 1, Unbounded, TRUE, <<>>, 0, <<>>)>>)
          \o Alt(<<One({"\n"}) \o Star(Space) \o LitI(Str.Licence), Eol>>)]

-----------------------------------------------------------------------------
(* Dates                                                                   *)

(* normalizeDate: D/M/Y or D-M-Y rewritten to DD/MM/YYYY; anything that    *)
(* does not split into three parts is returned unchanged.                  *)
NormalizeParts(parts, dateStr) ==
  IF Len(parts) = 3
  THEN LET normalizedDay   == PadStart2(DigitsOnly(parts[1]))
           normalizedMonth == PadStart2(parts[2])
           fullYear        == IF Len(parts[3]) = 2 THEN Str.Twenty \o parts[3] ELSE parts[3]
       IN normalizedDay \o Str.Slash \o normalizedMonth \o Str.Slash \o fullYear
  ELSE dateStr

normalizeDate(dateStr) == NormalizeParts(Split(DateSep, dateStr), dateStr)

(* Days from 01/01/1970 to day d of month m (1..12) of year y in the       *)
(* proleptic Gregorian calendar; d may run past the end of the month.      *)
DaysFromCivil(y, m, d) ==
  LET yy  == IF m <= 2 THEN y - 1 ELSE y
      era == yy \div 400
      yoe == yy - era * 400
      mp  == (m + 9) % 12
      doy == (153 * mp + 2) \div 5 + d - 1
      doe == yoe * 365 + yoe \div 4 - yoe \div 100 + doy
  IN era * 146097 + doe - 719468

NaN == [nan |-> TRUE, t |-> 0]
Num(t) == [nan |-> FALSE, t |-> t]
IsDay(n) == n >= 1 /\ n <= 31
IsMonth(n) == n >= 1 /\ n <= 12
TwoDigitYear(y) == IF y >= 0 /\ y <= 49 THEN y + 2000
                   ELSE IF y >= 50 /\ y <= 99 THEN y + 1900 ELSE y

(* new Date(s).getTime() for s = "n/n/n", in days: the engine's parser of  *)
(* non-ISO dates reads month/day/year (year/month/day when the first       *)
(* number is no day of a month) and yields NaN for an impossible month or  *)
(* day.                                                                    *)
TimeOfNumbers(a, b, c) ==
  LET ymd   == ~IsDay(a)
      year  == TwoDigitYear(IF ymd THEN a ELSE c)
      month == IF ymd THEN b ELSE a
      day   == IF ymd THEN c ELSE b
  IN IF IsMonth(month) /\ IsDay(day) THEN Num(DaysFromCivil(year, month, day)) ELSE NaN

TimeOfParts(parts) ==
  IF Len(parts) # 3 \/ \E k \in 1..3 : parts[k] = <<>> \/ DigitsOnly(parts[k]) # parts[k]
  THEN NaN
  ELSE TimeOfNumbers(ToNumber(parts[1]), ToNumber(parts[2]), ToNumber(parts[3]))

GetTime(s) == TimeOfParts(Split({"/"}, s))

DaysPerYear == 365

-----------------------------------------------------------------------------
(* Array.prototype.sort                                                    *)

(* The comparator's result as sort sees it: NaN counts as 0.               *)
Order(x, y) == IF x.nan \/ y.nan THEN 0 ELSE x.t - y.t

Reverse(a) == [k \in 1..Len(a) |-> a[Len(a) + 1 - k]]

RECURSIVE ExtendRun(_, _, _)
ExtendRun(a, idx, desc) ==
  IF idx > Len(a) THEN Len(a)
  ELSE LET o == Order(a[idx].k, a[idx - 1].k)
       IN IF (desc /\ o >= 0) \/ (~desc /\ o < 0) THEN idx - 1
          ELSE ExtendRun(a, idx + 1, desc)

RECURSIVE BinarySearch(_, _, _, _)
BinarySearch(a, pivot, left, right) ==
  IF left >= right THEN left
  ELSE LET mid == left + (right - left) \div 2
       IN IF Order(pivot.k, a[mid].k) < 0 THEN BinarySearch(a, pivot, left, mid)
          ELSE BinarySearch(a, pivot, mid + 1, right)

(* a with the pivot, taken from index start, put in at index left.         *)
Insert(a, pivot, left, start) ==
  SubSeq(a, 1, left - 1) \o <<pivot>> \o SubSeq(a, left, start - 1)
  \o SubSeq(a, start + 1, Len(a))

RECURSIVE BinaryInsertionSort(_, _)
BinaryInsertionSort(a, start) ==
  IF start > Len(a) THEN a
  ELSE BinaryInsertionSort(Insert(a, a[start], BinarySearch(a, a[start], 1, start), start),
                           start + 1)

(* The engine's sort of a short array of [k |-> key, v |-> element]: the   *)
(* initial run is found (and reversed when strictly descending), the rest  *)
(* is inserted by binary search.  Stable.                                  *)
MakeRun(a, desc, run) ==
  IF desc THEN Reverse(SubSeq(a, 1, run)) \o SubSeq(a, run + 1, Len(a)) ELSE a

SortFromRun(a, desc, run) == BinaryInsertionSort(MakeRun(a, desc, run), run + 1)

ArraySort(a) ==
  IF Len(a) < 2 THEN a
  ELSE SortFromRun(a, Order(a[2].k, a[1].k) < 0, ExtendRun(a, 3, Order(a[2].k, a[1].k) < 0))

Unkeyed(sorted) == [k \in 1..Len(sorted) |-> sorted[k].v]

(* dates.map(d => ({date, timestamp})).sort((a, b) => a.timestamp - b.timestamp) *)
SortByTimestamp(dates) ==
  Unkeyed(ArraySort([k \in 1..Len(dates) |->
                       [k |-> GetTime(normalizeDate(dates[k])), v |-> dates[k]]]))

(* A sort that leaves the list in the order of production.                 *)
SortKeepsOrder(list) == list

(* list.sort((a, b) => b.confidence - a.confidence) *)
SortByConfidence(list) ==
  Unkeyed(ArraySort([k \in 1..Len(list) |->
                       [k |-> Num(0 - list[k].confidence), v |-> list[k]]]))

-----------------------------------------------------------------------------
(* extractFieldsV2, first pass: the pattern scanner                        *)

Fields == {"id", "name", "dor", "issue", "valid", "spousePartner", "other"}

EmptyMatches == [f \in Fields |-> <<>>]

FieldMatch(value, confidence, line, pattern) ==
  [value |-> value, confidence |-> confidence, line |-> line, pattern |-> pattern,
   position |-> line]

(* matches[f].push(x) *)
Push(m, f, x) == [m EXCEPT ![f] = Append(@, x)]

(* text.split('\n').map(line => line.trim()).filter(Boolean) *)
NonEmpty(s) == s # <<>>
Lines(t) ==
  LET raw == Split({"\n"}, t)
  IN SelectSeq([k \in 1..Len(raw) |-> Trim(raw[k])], NonEmpty)

(* lines[k] for the 0-based index k; undefined outside the array.          *)
At(lines, k) == IF k >= 0 /\ k < Len(lines) THEN lines[k + 1] ELSE Undefined

(* if (idMatch) matches.id.push(...) *)
IdPush(idMatch, line, lineNum, m) ==
  IF idMatch.ok
  THEN Push(m, "id", FieldMatch(Whole(idMatch, line), 100, lineNum, "id-pattern"))
  ELSE m

(* Handle ID *)
IdStep(line, lineNum, m) == IdPush(Match(ReId, line), line, lineNum, m)

(* a || b for two matches *)
OrElse(first, re, s) == IF first.ok THEN first ELSE Match(re, s)

(* match[1]?.trim() ?? match[0] *)
GroupOrWhole(g, whole) == IF g = Undefined THEN whole ELSE Trim(g)

(* nameMatch[0].startsWith('NAME') ? 1.0 : 0.9 *)
NameConfidence(whole) ==
  IF Len(whole) >= Len(Str.Name) /\ SubSeq(whole, 1, Len(Str.Name)) = Str.Name
  THEN 100 ELSE 90

(* if (nameMatch && !line.match(label alone)) matches.name.push(...) *)
NamePush(nameMatch, line, lineNum, m) ==
  IF nameMatch.ok /\ ~Test(ReLabelOnly, line)
  THEN Push(m, "name",
            FieldMatch(GroupOrWhole(Group(nameMatch, line, 1), Whole(nameMatch, line)),
                       NameConfidence(Whole(nameMatch, line)), lineNum, "name-pattern"))
  ELSE m

(* Handle Name *)
NameStep(line, lineNum, m) ==
  NamePush(OrElse(Match(Re.NameLabel, line), Re.NameId, line), line, lineNum, m)

(* HasNextLine without the check of the array's length.                    *)
HasNextLineUnchecked(lines, lineNum) == TRUE

(* lineNum + 1 < lines.length *)
HasNextLine(lines, lineNum) == lineNum + 1 < Len(lines)

(* if (nameOnNextLine && !nextLine.match(label alone)) *)
NextLineIsName(nameOnNextLine, nextLine) ==
  nameOnNextLine.ok /\ ~Test(ReLabelOnly, nextLine)

(* Check for name on next line after NAME label.  A method called on       *)
(* undefined (the next line, or the first group) raises a TypeError.       *)
NextLineThrows(nextLine, nameOnNextLine) ==
  \/ nextLine = Undefined
  \/ /\ NextLineIsName(nameOnNextLine, nextLine)
     /\ Group(nameOnNextLine, nextLine, 1) = Undefined

NameNextThrows(lines, lineNum) ==
  /\ Test(Re.NameOnly, At(lines, lineNum))
  /\ HasNextLine(lines, lineNum)
  /\ NextLineThrows(At(lines, lineNum + 1),
                    Match(Re.NameNextLine, At(lines, lineNum + 1)))

NameNextPush(nextLine, nameOnNextLine, lineNum, m) ==
  IF NextLineIsName(nameOnNextLine, nextLine)
  THEN Push(m, "name", FieldMatch(Trim(Group(nameOnNextLine, nextLine, 1)), 95,
                                  lineNum + 1, "name-next-line"))
  ELSE m

NameNextStep(lines, lineNum, m) ==
  IF Test(Re.NameOnly, At(lines, lineNum)) /\ HasNextLine(lines, lineNum)
  THEN NameNextPush(At(lines, lineNum + 1),
                    Match(Re.NameNextLine, At(lines, lineNum + 1)), lineNum, m)
  ELSE m

(* spouseMatch[0].toLowerCase().includes('spouse') ? 1.0 : 0.8 *)
SpouseConfidence(whole) ==
  IF \E k \in 1..(Len(whole) - Len(Str.LowerSpouse) + 1) :
       [j \in 1..Len(Str.LowerSpouse) |-> ToLowerChar(whole[k + j - 1])] = Str.LowerSpouse
  THEN 100 ELSE 80

(* The push of the spouse/partner candidate onto the list of names. *)
SpousePushToName(spouseMatch, line, lineNum, m) ==
  IF spouseMatch.ok
  THEN Push(m, "name",
            FieldMatch(GroupOrWhole(Group(spouseMatch, line, 1), Whole(spouseMatch, line)),
                       SpouseConfidence(Whole(spouseMatch, line)), lineNum,
                       "spouse-pattern"))
  ELSE m

(* if (spouseMatch) matches.spousePartner.push(...) *)
SpousePush(spouseMatch, line, lineNum, m) ==
  IF spouseMatch.ok
  THEN Push(m, "spousePartner",
            FieldMatch(GroupOrWhole(Group(spouseMatch, line, 1), Whole(spouseMatch, line)),
                       SpouseConfidence(Whole(spouseMatch, line)), lineNum,
                       "spouse-pattern"))
  ELSE m

(* Handle Spouse/Partner *)
SpouseStep(line, lineNum, m) ==
  SpousePush(OrElse(Match(Re.SpouseLabel, line), Re.SpouseStreet, line), line, lineNum, m)

(* if (dateMatch) matches[f].push(...) *)
LabeledPush(dateMatch, line, lineNum, m, f, pattern) ==
  IF dateMatch.ok
  THEN Push(m, f, FieldMatch(normalizeDate(Whole(dateMatch, line)), 100, lineNum, pattern))
  ELSE m

(* Handle labeled dates first *)
LabeledStep(line, lineNum, m, reWord, f, pattern) ==
  IF Test(reWord, line)
  THEN LabeledPush(Match(Re.Date, line), line, lineNum, m, f, pattern)
  ELSE m

LabeledDatesStep(line, lineNum, m) ==
  LabeledStep(line, lineNum,
    LabeledStep(line, lineNum,
      LabeledStep(line, lineNum, m, Re.DorWord, "dor", "dor-labeled"),
      Re.IssueWord, "issue", "issue-labeled"),
    Re.ValidWord, "valid", "valid-labeled")

(* yearsDiff > 18 && yearsDiff < 100, with yearsDiff = (now - timestamp)   *)
(* / (1000 * 60 * 60 * 24 * 365); false for a NaN timestamp.               *)
InAgeBand(ts, tnow) ==
  /\ ~ts.nan
  /\ tnow - ts.t > 18 * DaysPerYear
  /\ tnow - ts.t < 100 * DaysPerYear

(* The two dates left beside a range, or the two oldest of three: dor is   *)
(* the first of the dates as sorted, issue the second.                     *)
PushDorIssue(m, sortedDates, lineNum, dorPattern, issuePattern) ==
  Push(Push(m, "dor",
            FieldMatch(normalizeDate(sortedDates[1]), 90, lineNum, dorPattern)),
       "issue", FieldMatch(normalizeDate(sortedDates[2]), 85, lineNum, issuePattern))

(* if (remainingDates.length === 2) *)
RemainingDatesStep(remainingDates, lineNum, m) ==
  IF Len(remainingDates) = 2
  THEN PushDorIssue(m, SortByTimestamp(remainingDates), lineNum,
                    "dor-with-range", "issue-with-range")
  ELSE m

(* if (rangeMatch): the range is the valid candidate, its two dates leave  *)
(* the array.                                                              *)
RangeStep(dates, r1, r2, lineNum, m) ==
  LET NotInRange(d) == d # r1 /\ d # r2
  IN RemainingDatesStep(SelectSeq(dates, NotInRange), lineNum,
       Push(m, "valid",
            FieldMatch(normalizeDate(r1) \o Str.RangeSep \o normalizeDate(r2), 95,
                       lineNum, "valid-range")))

(* else if (dates.length === 3) *)
ThreeDatesStep(sortedDates, validValue, lineNum, m) ==
  IF validValue = <<>>
  THEN Push(PushDorIssue(m, sortedDates, lineNum,
                         "dor-position-oldest", "issue-position-middle"),
            "valid", FieldMatch(normalizeDate(sortedDates[3]), 80, lineNum,
                                "valid-position-newest"))
  ELSE PushDorIssue(m, sortedDates, lineNum,
                    "dor-position-oldest", "issue-position-middle")

(* SingleDateStep as it would be if the age test guarded an issue date.    *)
SingleDateAsIssue(dateValue, lineNum, m, tnow) ==
  IF InAgeBand(GetTime(dateValue), tnow)
  THEN Push(m, "issue", FieldMatch(dateValue, 80, lineNum, "issue-age-range"))
  ELSE m

(* else if (dates.length === 1) *)
SingleDateStep(dateValue, lineNum, m, tnow) ==
  IF InAgeBand(GetTime(dateValue), tnow)
  THEN Push(m, "dor", FieldMatch(dateValue, 80, lineNum, "dor-age-range"))
  ELSE m

(* if (dates) *)
DatesStep(dates, rangeMatch, line, lineNum, m, tnow) ==
  IF dates = <<>> THEN m
  ELSE IF rangeMatch.ok
  THEN RangeStep(dates, Group(rangeMatch, line, 1), Group(rangeMatch, line, 2),
                 lineNum, m)
  ELSE IF Len(dates) = 3 THEN ThreeDatesStep(SortByTimestamp(dates), <<>>, lineNum, m)
  ELSE IF Len(dates) = 1 THEN SingleDateStep(normalizeDate(dates[1]), lineNum, m, tnow)
  ELSE m

(* Handle unlabeled dates *)
UnlabeledDatesStep(line, lineNum, m, tnow) ==
  DatesStep(MatchAll(Re.Date, line), Match(Re.DateRange, line), line, lineNum, m, tnow)

(* The body of lines.forEach((line, lineNum) => ...) *)
ScanLine(lines, lineNum, m, tnow) ==
  LET line == At(lines, lineNum)
  IN UnlabeledDatesStep(line, lineNum,
       LabeledDatesStep(line, lineNum,
         SpouseStep(line, lineNum,
           NameNextStep(lines, lineNum,
             NameStep(line, lineNum,
               IdStep(line, lineNum, m))))),
       tnow)

(* a.push(...b) for each field *)
Concat(a, b) == [f \in Fields |-> a[f] \o b[f]]

RECURSIVE ScanFrom(_, _, _)
(* What the lines from lineNum on push, in order.  A line's pushes do not  *)
(* depend on the table, so forEach over the shared table is the            *)
(* concatenation of the lines' pushes.                                     *)
ScanFrom(lines, lineNum, tnow) ==
  IF lineNum >= Len(lines) THEN EmptyMatches
  ELSE Concat(ScanLine(lines, lineNum, EmptyMatches, tnow),
              ScanFrom(lines, lineNum + 1, tnow))

(* First pass: Find all potential matches *)
Scan(lines, tnow) == ScanFrom(lines, 0, tnow)

(* Whether the first pass raises.                                          *)
ScanThrows(lines) == \E lineNum \in 0..(Len(lines) - 1) : NameNextThrows(lines, lineNum)

(* extractFieldsV2 of the useScans hook: the first pass alone.             *)
HookExtractFieldsV2(t, tnow) ==
  LET lines == Lines(t)
  IN IF ScanThrows(lines)
     THEN [threw |-> TRUE, success |-> FALSE, matches |-> EmptyMatches]
     ELSE [threw |-> FALSE, success |-> TRUE, matches |-> Scan(lines, tnow)]

-----------------------------------------------------------------------------
(* extractFieldsV2, second pass: dependents, best matches, verdict         *)

HasValue(list, v) == \E k \in 1..Len(list) : list[k].value = v
HasLine(list, n)  == \E k \in 1..Len(list) : list[k].line = n

(* The test without its two comparisons with the candidates. *)
IsChildNameUnfiltered(nextLine, m) ==
  /\ Len(nextLine) > 0
  /\ Test(Re.BareName, nextLine)
  /\ ~Test(Re.KeywordStart, nextLine)

(* The test a line of an OTHER section passes to be taken as a child name. *)
IsChildName(nextLine, m) ==
  /\ Len(nextLine) > 0
  /\ Test(Re.BareName, nextLine)
  /\ ~Test(Re.KeywordStart, nextLine)
  /\ ~HasValue(m.name, nextLine)
  /\ ~HasValue(m.spousePartner, nextLine)

RECURSIVE CollectSectionPastHeaders(_, _, _, _)
(* The while loop without its break: it runs to the end of the text.       *)
CollectSectionPastHeaders(lines, j, otherLines, m) ==
  IF j >= Len(lines) THEN [j |-> j, otherLines |-> otherLines]
  ELSE CollectSectionPastHeaders(lines, j + 1,
         IF IsChildName(Trim(At(lines, j)), m) THEN Append(otherLines, Trim(At(lines, j)))
         ELSE otherLines, m)

RECURSIVE CollectSection(_, _, _, _)
(* The while loop after an OTHER header: from line j on, until a section   *)
(* header or the end; yields the j it stops at and the lines collected.    *)
CollectSection(lines, j, otherLines, m) ==
  IF j >= Len(lines) THEN [j |-> j, otherLines |-> otherLines]
  ELSE LET nextLine == Trim(At(lines, j))
       IN IF Test(Re.SectionEnd, nextLine) THEN [j |-> j, otherLines |-> otherLines]
          ELSE CollectSection(lines, j + 1,
                 IF IsChildName(nextLine, m) THEN Append(otherLines, nextLine)
                 ELSE otherLines, m)

(* The test a line passes to be taken as an implicit dependent.            *)
IsImplicitDependent(line, st, m) ==
  /\ ~st.foundOtherSection
  /\ st.foundSpousePartner
  /\ ~Test(Re.KeywordStart, line)
  /\ ~Test(Re.Digits, line)
  /\ ~Test(Re.Date, line)
  /\ ~Test(Re.Street, line)
  /\ Len(line) > 0
  /\ Test(Re.BareName, line)
  /\ ~HasValue(m.name, line)
  /\ ~HasValue(m.spousePartner, line)

RECURSIVE OtherLoop(_, _, _, _)
RECURSIVE AfterSection(_, _, _, _)
(* for (let i = 0; i < lines.length; i++) of "Handle other fields"         *)
OtherLoop(lines, i, st, m) ==
  IF i >= Len(lines) THEN st
  ELSE LET line == Trim(At(lines, i))
       IN IF Test(Re.OtherOnly, line)
          THEN AfterSection(lines, CollectSection(lines, i + 1, st.otherLines, m), st, m)
          ELSE IF Test(Re.SpouseStart, line) \/ HasLine(m.spousePartner, i)
          THEN OtherLoop(lines, i + 1, [st EXCEPT !.foundSpousePartner = TRUE], m)
          ELSE IF IsImplicitDependent(line, st, m)
          THEN OtherLoop(lines, i + 1, [st EXCEPT !.otherLines = Append(@, line)], m)
          ELSE OtherLoop(lines, i + 1, st, m)

(* i = j - 1 (skip processed lines), then the loop's i++                   *)
AfterSection(lines, c, st, m) ==
  OtherLoop(lines, (c.j - 1) + 1,
            [st EXCEPT !.inOtherSection = TRUE, !.foundOtherSection = TRUE,
                       !.otherLines = c.otherLines], m)

(* Array.prototype.findIndex, given for each element whether it passes:    *)
(* the 0-based index of the first element that passes, or -1.              *)
FindIndex(passes) ==
  IF \E k \in 1..Len(passes) : passes[k]
  THEN Min({k \in 1..Len(passes) : passes[k]}) - 1
  ELSE 0 - 1

(* if (otherLines.length > 0) matches.other.push(...) *)
OtherPush(lines, st, m) ==
  IF Len(st.otherLines) > 0
  THEN Push(m, "other",
            FieldMatch(Join(st.otherLines, Str.CommaSpace),
                       IF st.foundOtherSection THEN 100 ELSE 80,
                       IF st.foundOtherSection
                       THEN FindIndex([k \in 1..Len(lines) |->
                                         Test(Re.OtherOnly, Trim(lines[k]))])
                       ELSE FindIndex([k \in 1..Len(lines) |->
                                         Trim(lines[k]) = st.otherLines[1]]),
                       IF st.foundOtherSection THEN "other-section"
                       ELSE "other-implicit"))
  ELSE m

(* Handle other fields (children) *)
OtherStep(lines, m) ==
  OtherPush(lines,
            OtherLoop(lines, 0,
                      [inOtherSection |-> FALSE, otherLines |-> <<>>,
                       foundSpousePartner |-> FALSE, foundOtherSection |-> FALSE], m),
            m)

(* Get best matches by confidence; sort orders each list in place.         *)
SortedMatches(m) == [f \in Fields |-> SortByConfidence(m[f])]

BestMatches(sorted) ==
  [f \in Fields |->
     IF f = "other"
     THEN (* matches.other.sort(...).map(m => m.value).filter(Boolean).join(', ') *)
          Join(SelectSeq([k \in 1..Len(sorted[f]) |-> sorted[f][k].value], NonEmpty),
               Str.CommaSpace)
     ELSE (* matches[f].sort(...)[0]?.value ?? '' *)
          IF sorted[f] = <<>> THEN <<>> ELSE sorted[f][1].value]

(* Success as it would be if the id were required as well.                 *)
SuccessWithId(best) ==
  best["id"] # <<>> /\ best["name"] # <<>> /\ best["dor"] # <<>> /\ best["issue"] # <<>>
  /\ best["valid"] # <<>>

(* bestMatches.name !== '' && bestMatches.dor !== '' && bestMatches.issue  *)
(* !== '' && bestMatches.valid !== ''                                      *)
Success(best) ==
  best["name"] # <<>> /\ best["dor"] # <<>> /\ best["issue"] # <<>> /\ best["valid"] # <<>>

(* return { success, fields: { ...bestMatches, createdAt: Date.now() },    *)
(* matches }                                                               *)
Returned(scanned, sorted, best, tnow) ==
  [threw |-> FALSE, success |-> Success(best), fields |-> best, createdAt |-> tnow,
   matches |-> sorted, scanned |-> scanned]

Resolved(scanned, sorted, tnow) == Returned(scanned, sorted, BestMatches(sorted), tnow)

Arbitrated(scanned, tnow) == Resolved(scanned, SortedMatches(scanned), tnow)

(* extractFieldsV2 with the arbiter.  scanned is the table as the passes   *)
(* left it, matches the table the caller receives (sorted in place).       *)
ExtractFieldsV2(t, tnow) ==
  LET lines == Lines(t)
  IN IF ScanThrows(lines)
     THEN [threw |-> TRUE, success |-> FALSE, fields |-> [f \in Fields |-> <<>>],
           createdAt |-> tnow, matches |-> EmptyMatches, scanned |-> EmptyMatches]
     ELSE Arbitrated(OtherStep(lines, Scan(lines, tnow)), tnow)

-----------------------------------------------------------------------------
(* extractFields: one pass of seven patterns over the whole text           *)

(* match?.[1]?.trim() ?? '' *)
GroupTrimmed(mt, t) ==
  IF mt.ok /\ Group(mt, t, 1) # Undefined THEN Trim(Group(mt, t, 1)) ELSE <<>>

TrimmedGroup(re, t) == GroupTrimmed(Match(re, t), t)

(* idMatch?.[0] ?? '' *)
WholeOrEmpty(mt, t) == IF mt.ok THEN Whole(mt, t) ELSE <<>>

(* otherMatch ? otherMatch[1].split('\n').map(line => line.trim())         *)
(* .filter(Boolean).join(', ') : ''                                        *)
OtherJoined(otherMatch, t) ==
  IF otherMatch.ok THEN Join(Lines(Group(otherMatch, t, 1)), Str.CommaSpace) ELSE <<>>

OtherValue(t) == OtherJoined(Match(Re.OtherBlock, t), t)

ExtractFields(t, tnow) ==
  [type |-> "family_season_licence",
   fields |-> [f \in Fields |->
      CASE f = "id"    -> WholeOrEmpty(Match(ReId, t), t)
        [] f = "name"  -> TrimmedGroup(Re.NameLabel, t)
        [] f = "dor"   -> TrimmedGroup(Re.DorValue, t)
        [] f = "issue" -> TrimmedGroup(Re.IssueValue, t)
        [] f = "valid" -> TrimmedGroup(Re.ValidValue, t)
        [] f = "spousePartner" -> TrimmedGroup(Re.SpouseLabel, t)
        [] f = "other" -> OtherValue(t)],
   createdAt |-> tnow]

-----------------------------------------------------------------------------
(* Inputs: the texts handed to the extraction functions                    *)

(* The lines a text of the general family is made of.                     *)
Line ==
  [NameAlBo |-> <<"N", "A", "M", "E", " ", "A", "l", " ", "B", "o">>,
   Name |-> <<"N", "A", "M", "E">>,
   CyDiId |-> <<"C", "y", " ", "D", "i", " ", "1", "2", "3", "4", "5", "6", "7">>,
   NameEd |-> <<"N", "A", "M", "E", " ", "E", "d">>,
   IdDigits |-> <<"I", "D", ":", " ", "1", "2", "3", "4", "5", "6", "7", "8", "9", " ", "6", "5", "4", "3", "2", "1", " ", "7", "6", "5", "4", "3", "2", "1">>,
   Dor |-> <<"D", "O", "R", " ", "0", "1", "/", "0", "1", "/", "1", "9", "9", "0">>,
   ThreeDates |-> <<"0", "1", "/", "0", "1", "/", "1", "9", "8", "2", " ", "2", "2", "/", "0", "8", "/", "2", "0", "2", "4", " ", "0", "1", "/", "1", "0", "/", "2", "0", "2", "5">>,
   Birth |-> <<"0", "1", "/", "0", "6", "/", "2", "0", "0", "7">>,
   JoRoad |-> <<"J", "o", " ", "R", "o", "a", "d">>,
   Noise |-> <<"~", " ", "3", "/", "4", "/", "5", " ", "-">>,
   Other |-> <<"O", "T", "H", "E", "R">>]

(* The longest text of the general family, in lines.                       *)
MaxLines == 2
(* The most dependents of a full record.                                   *)
MaxDeps == 2
(* The longest text of bare labels, in lines.                              *)
MaxLabels == 2
(* How many days the clock may advance.                                    *)
MaxTicks == 1


(* The sequences over S of lo to hi elements.                              *)
SeqsOf(S, lo, hi) == UNION {[1..n -> S] : n \in lo..hi}

(* Every text of at most MaxLines lines out of Line.                       *)
Texts ==
  {[family |-> "lines", text |-> Join(ls, Str.Newline)] :
     ls \in SeqsOf({Line[l] : l \in DOMAIN Line}, 0, MaxLines)}


(* What a record is made of: the names, spouses, dependents and dates it   *)
(* may hold, and the three dates of the full record.                       *)
Value ==
  LET d1990 == <<"0", "1", "/", "0", "1", "/", "1", "9", "9", "0">>
      d2024 == <<"0", "1", "/", "0", "1", "/", "2", "0", "2", "4">>
      d2025 == <<"0", "1", "/", "0", "1", "/", "2", "0", "2", "5">>
  IN [Names |-> {<<"A", "l", " ", "B", "o">>,
                 <<"J", "o", " ", "S", "t", "r", "e", "e", "t">>,
                 <<"S", "p", "o", "u", "s", "e", " ", "R", "d">>},
      Spouses |-> {<<"J", "a", "n", "e">>, <<"D", "i", " ", "A", "v", "e", "n", "u", "e">>},
      Dependents |-> {<<"K", "i", "d", " ", "1">>, <<"K", "i", "d", " ", "2">>},
      Dates |-> {d1990, d2024},
      Dor |-> d1990, Issue |-> d2024, Valid |-> d2025]

Labeled(label, value) == label \o Str.Blank \o value

(* The full labeled records: NAME, DOR, ISSUE, VALID, SPOUSE/PARTNER, an   *)
(* OTHER section of distinct dependents, a closing Licence.                *)
FullRecords ==
  {[family |-> "record", name |-> n, dor |-> Value.Dor, issue |-> Value.Issue,
    valid |-> Value.Valid, spousePartner |-> sp, other |-> cs,
    text |-> Join(<<Labeled(Str.Name, n), Labeled(Str.Dor, Value.Dor),
                    Labeled(Str.Issue, Value.Issue), Labeled(Str.Valid, Value.Valid),
                    Labeled(Str.SpousePartner, sp), Str.Other>>
                  \o cs \o <<Str.Licence>>, Str.Newline)] :
     n \in Value.Names, sp \in Value.Spouses,
     cs \in {c \in SeqsOf(Value.Dependents, 1, MaxDeps) :
               \A j, k \in 1..Len(c) : c[j] = c[k] => j = k}}

(* The partial records: NAME and DOR, with or without a closing Licence.   *)
PartialRecords ==
  {[family |-> "partial", name |-> n, dor |-> d,
    text |-> Join(<<Labeled(Str.Name, n), Labeled(Str.Dor, d)>>
                  \o (IF closed THEN <<Str.Licence>> ELSE <<>>), Str.Newline)] :
     n \in Value.Names, d \in Value.Dates, closed \in BOOLEAN}

(* Texts of bare labels. *)
LabelTexts ==
  {[family |-> "labels", lines |-> ls, text |-> Join(ls, Str.Newline)] :
     ls \in SeqsOf({Str.Name, Str.Dor, Str.Issue, Str.Valid, Str.SpousePartner,
                  Str.Other, Str.Licence}, 1, MaxLabels)}

(* The date tokens of a line of dates.  The first lacks its zeros; the     *)
(* second has no month-first reading; the third and the fourth change      *)
(* order with the reading.  A range is two dates and what joins them: the  *)
(* first range starts with a date that is a token too, the second has an   *)
(* en dash, a 2-digit year, and dashes with a 3-digit year.                *)
DateLine ==
  LET october == <<"0", "1", "/", "1", "0", "/", "2", "0", "2", "4">>
  IN [Tokens |-> {<<"1", "/", "1", "/", "1", "9", "8", "2">>,
                  <<"2", "2", "/", "0", "8", "/", "1", "9", "9", "0">>,
                  october,
                  <<"0", "5", "/", "0", "3", "/", "2", "0", "2", "4">>},
      Ranges |-> {[d1 |-> october, sep |-> <<" ", "-", " ">>,
                   d2 |-> <<"3", "0", "/", "0", "9", "/", "2", "0", "2", "5">>],
                  [d1 |-> <<"1", "/", "2", "/", "9", "0">>, sep |-> <<Str.EnDash>>,
                   d2 |-> <<"1", "-", "2", "-", "1", "9", "9">>]}]

(* The most dates of a line that has no range; a range comes after fewer.  *)
MaxDates == 3

(* Every line of dates: at most MaxDates dates, or fewer and a range.      *)
DateTexts ==
  {[family |-> "dates", dates |-> ds, range |-> <<>>, text |-> Join(ds, Str.Blank)] :
     ds \in SeqsOf(DateLine.Tokens, 1, MaxDates)}
  \cup
  {[family |-> "dates", dates |-> ds, range |-> <<r.d1, r.d2>>,
    text |-> Join(ds \o <<r.d1 \o r.sep \o r.d2>>, Str.Blank)] :
     ds \in SeqsOf(DateLine.Tokens, 0, MaxDates - 1), r \in DateLine.Ranges}

(* The lines of a text of names: the label in mixed and in upper case with *)
(* the name beside it, the bare label in upper and in lower case, a name    *)
(* before an id without and with the label, and a name alone.              *)
NameLine ==
  [Mixed |-> <<"N", "a", "m", "e", " ", "A", "l", " ", "B", "o">>,
   Upper |-> <<"N", "A", "M", "E", " ", "A", "l", " ", "B", "o">>,
   Label |-> <<"N", "A", "M", "E">>,
   LowerLabel |-> <<"n", "a", "m", "e">>,
   WithId |-> <<"A", "l", " ", "B", "o", " ", "1", "2", "3", "4", "5", "6", "7">>,
   LabelWithId |-> <<"N", "A", "M", "E", " ", "A", "l", " ", "1", "2", "3", "4", "5", "6", "7">>,
   Plain |-> <<"C", "y", " ", "D", "i">>]

(* The longest text of names, in lines.                                    *)
MaxNameLines == 2

(* Every text of at most MaxNameLines lines out of NameLine.               *)
NameTexts ==
  {[family |-> "names", lines |-> ls, text |-> Join(ls, Str.Newline)] :
     ls \in SeqsOf({NameLine[l] : l \in DOMAIN NameLine}, 1, MaxNameLines)}

(* The lines of a text of sections: the OTHER header, a dependent, a line   *)
(* that repeats the name, a line that repeats the spouse, and the closing  *)
(* Licence; and the two lines such a text may start with.                  *)
SectionLine ==
  [Body |-> {<<"O", "T", "H", "E", "R">>,
            <<"K", "i", "d", " ", "1">>,
            <<"A", "l", " ", "B", "o">>,
            <<"J", "a", "n", "e">>,
            <<"L", "i", "c", "e", "n", "c", "e">>},
   Head |-> <<<<"N", "A", "M", "E", " ", "A", "l", " ", "B", "o">>,
             <<"S", "P", "O", "U", "S", "E", "/", "P", "A", "R", "T", "N", "E", "R", " ", "J", "a", "n", "e">>>>]

(* The most lines of a text of sections after its head.                    *)
MaxSectionLines == 3

(* Every text of sections: at most MaxSectionLines lines out of            *)
(* SectionLine.Body, with or without the head before them.                 *)
SectionTexts ==
  {[family |-> "sections", head |-> h, body |-> b, text |-> Join(h \o b, Str.Newline)] :
     h \in {<<>>, SectionLine.Head}, b \in SeqsOf(SectionLine.Body, 1, MaxSectionLines)}

(* Every text of a name line, an ISSUE or ISSUED line with one date, and a *)
(* VALID line with one date or a range; no line has a DOR label.           *)
IssueValidTexts ==
  {[family |-> "issue-valid", issue |-> d, valid |-> v,
    text |-> Join(<<Line.NameAlBo, Labeled(label, d), Labeled(Str.Valid, v)>>, Str.Newline)] :
     label \in {Str.Issue, Str.Issue \o <<"D">>},
     d \in DateLine.Tokens,
     v \in DateLine.Tokens \cup {r.d1 \o r.sep \o r.d2 : r \in DateLine.Ranges}}

(* The clock when the first call is made: 1 January 2025, in days.         *)
Now0 == DaysFromCivil(2025, 1, 1)

-----------------------------------------------------------------------------
(* The useScans hook: the scan list, the queue that hands one scan at a    *)
(* time to the OCR worker, and the polling of the live OCR score.  A scan  *)
(* is a record without its image; ids are 1, 2, ... in order of creation.  *)

maxItems == 20
MaxScans == 2
MaxPolls == 2
MaxExtra == 3

(* The scan addScanToQueue creates; a caller of addScan hands over the     *)
(* same, or one with its name entered and locked.                          *)
NewScan(id, tnow, locked) ==
  [id |-> id, ocrText |-> <<>>,
   fields |-> [f \in Fields |->
                 IF locked /\ f = "name"
                 THEN [value |-> Line.JoRoad, locked |-> TRUE]
                 ELSE [value |-> <<>>, locked |-> FALSE]],
   fieldsCreatedAt |-> tnow,
   matches |-> EmptyMatches, createdAt |-> tnow, status |-> "queued"]

(* The state of the hook after its first render.  video: the camera is on  *)
(* (props.videoRef.current is set); isArray: the scans state is an array;  *)
(* job: the id of the scan whose worker.recognize is in flight; polls: the *)
(* worker.recognize calls of getORCScore in flight; crashed: an updater or *)
(* an effect has thrown; last: the last operation and the scans before it. *)
UseScans(video) ==
  [scans |-> <<>>, isArray |-> TRUE, isProcessing |-> FALSE, worker |-> FALSE,
   video |-> video, activeScanId |-> 0, job |-> <<>>, polls |-> 0, nextId |-> 1,
   crashed |-> FALSE,
   last |-> [op |-> "useScans", id |-> 0, field |-> "", before |-> <<>>]]

(* One operation of the hook, leaving it in state h. *)
Operation(h, op, id, field) ==
  /\ ~hook.crashed
  /\ hook' = [h EXCEPT !.last = [op |-> op, id |-> id, field |-> field, before |-> hook.scans]]
  /\ UNCHANGED <<given, text, now, rFields, rV2, prevV2, rHook, wc>>

(* setScans(prev => updated) where the updater uses prev as an array: it   *)
(* throws when prev is not one.                                            *)
SetScans(updated) ==
  IF hook.isArray THEN [hook EXCEPT !.scans = updated] ELSE [hook EXCEPT !.crashed = TRUE]

(* addScanToQueue(imageData), called by takePhoto and handleFileUpload *)
AddScanToQueue(cap) ==
  /\ hook.nextId <= cap
  /\ LET updated == Append(hook.scans, NewScan(hook.nextId, now, FALSE))
     IN Operation([SetScans(IF Len(updated) > maxItems THEN Tail(updated) ELSE updated)
                     EXCEPT !.nextId = @ + 1],
                  "addScanToQueue", hook.nextId, "")

(* addScan(scan) *)
AddScan(cap, locks) ==
  /\ hook.nextId <= cap
  /\ \E locked \in locks :
       Operation([SetScans(Append(hook.scans, NewScan(hook.nextId, now, locked)))
                    EXCEPT !.nextId = @ + 1],
                 "addScan", hook.nextId, "")

(* clearScans() and clearAllScans(): setScans([]) *)
ClearScans ==
  Operation([hook EXCEPT !.scans = <<>>, !.isArray = TRUE], "clearScans", 0, "")

(* clearScan(id): prev.filter((s) => s.id == id) *)
ClearScan ==
  \E id \in 1..(hook.nextId - 1) :
    Operation(SetScans(SelectSeq(hook.scans, LAMBDA s : s.id = id)), "clearScan", id, "")

(* setActiveScanId(id) *)
SetActiveScanId ==
  \E id \in 1..(hook.nextId - 1) :
    Operation([hook EXCEPT !.activeScanId = id], "setActiveScanId", id, "")

(* lockField(scanId, fieldKey).  The updater copies prev into an object,   *)
(* { ...prev }, and looks the scan up in the scans of the first render,    *)
(* which the callback (dependencies []) closes over: an empty array, so no *)
(* field is locked.  The queue effect then calls scans.some on the object  *)
(* unless isProcessing is set.                                             *)
LockField ==
  \E scanId \in 1..(hook.nextId - 1), fieldKey \in {"name", "dor"} :
    Operation([hook EXCEPT !.isArray = FALSE, !.crashed = ~hook.isProcessing],
              "lockField", scanId, fieldKey)

(* lockActivePhotoField(fieldName).  The callback (dependencies []) closes *)
(* over the scans and the activeScanId of the first render: it maps the    *)
(* empty array and sets the result.                                        *)
LockActivePhotoField ==
  \E fieldName \in {"name", "dor"} :
    Operation([hook EXCEPT !.scans = <<>>, !.isArray = TRUE],
              "lockActivePhotoField", hook.activeScanId, fieldName)

(* initWorker: createWorker and reinitialize have resolved. *)
InitWorker ==
  /\ ~hook.worker
  /\ Operation([hook EXCEPT !.worker = TRUE], "initWorker", 0, "")

(* ProcessQueue taking any scan, whatever its status. *)
ProcessQueueAny ==
  /\ ~hook.isProcessing
  /\ hook.isArray
  /\ hook.worker
  /\ \E k \in 1..Len(hook.scans) :
       Operation([hook EXCEPT !.isProcessing = TRUE,
                              !.scans[k].status = "processing",
                              !.job = <<hook.scans[k].id>>],
                 "processQueue", hook.scans[k].id, "")

(* The queue effect and processQueue up to the call of worker.recognize in *)
(* processImage: the first queued scan, the only one of its id, is set to  *)
(* processing.                                                             *)
ProcessQueue ==
  /\ ~hook.isProcessing
  /\ hook.isArray
  /\ hook.worker
  /\ \E k \in 1..Len(hook.scans) :
       /\ hook.scans[k].status = "queued"
       /\ \A j \in 1..(k - 1) : hook.scans[j].status # "queued"
       /\ Operation([hook EXCEPT !.isProcessing = TRUE,
                                 !.scans[k].status = "processing",
                                 !.job = <<hook.scans[k].id>>],
                    "processQueue", hook.scans[k].id, "")

(* Processed with the locks ignored: every field gets the first candidate. *)
ProcessedUnlocked(s, ocrText, thrown, r) ==
  IF thrown \/ r.threw
  THEN [s EXCEPT !.status = "error"]
  ELSE [s EXCEPT !.ocrText = ocrText,
                 !.fields = [f \in Fields |->
                               [value |-> IF r.matches[f] # <<>>
                                          THEN r.matches[f][1].value ELSE <<>>,
                                locked |-> FALSE]],
                 !.matches = r.matches,
                 !.status = "completed"]

(* The scan s after processImage: with the OCR result applied, each        *)
(* unlocked field getting the value of matches[fieldKey][0] or '', or with *)
(* status error when worker.recognize or extractFieldsV2 has thrown.       *)
Processed(s, ocrText, thrown, r) ==
  IF thrown \/ r.threw
  THEN [s EXCEPT !.status = "error"]
  ELSE [s EXCEPT !.ocrText = ocrText,
                 !.fields = [f \in Fields |->
                               IF ~s.fields[f].locked
                               THEN [value |-> IF r.matches[f] # <<>>
                                               THEN r.matches[f][1].value ELSE <<>>,
                                     locked |-> FALSE]
                               ELSE s.fields[f]],
                 !.matches = r.matches,
                 !.status = "completed"]

(* worker.recognize(scan.image) returns a text or throws: the rest of      *)
(* processImage and of processQueue.                                       *)
Recognized ==
  /\ hook.job # <<>>
  /\ \E ocrText \in {Join(<<Line.CyDiId, Line.NameEd>>, Str.Newline), Line.NameAlBo},
        thrown \in BOOLEAN :
       Operation([SetScans([k \in 1..Len(hook.scans) |->
                              IF hook.scans[k].id = hook.job[1]
                              THEN Processed(hook.scans[k], ocrText, thrown,
                                             HookExtractFieldsV2(ocrText, now))
                              ELSE hook.scans[k]])
                    EXCEPT !.isProcessing = FALSE, !.job = <<>>],
                 "processImage", hook.job[1], "")

(* The polling effect, every second: getORCScore up to its call of         *)
(* worker.recognize.                                                       *)
GetORCScore ==
  /\ hook.video
  /\ hook.worker
  /\ hook.polls < MaxPolls
  /\ Operation([hook EXCEPT !.polls = @ + 1], "getORCScore", 0, "")

(* The worker.recognize of a getORCScore returns or throws. *)
Scored ==
  /\ hook.polls > 0
  /\ Operation([hook EXCEPT !.polls = @ - 1], "setOrcStrength", 0, "")

-----------------------------------------------------------------------------
(* The SlickScan web component with photos coming from the file input:    *)
(* the photo queue, as the statuses of its photos, and the file reads in   *)
(* progress.                                                               *)

MaxPhotos == 4
MaxFiles == 2

(* The component once connected, nothing stored. *)
SlickScan == [photoQueue |-> <<>>, isProcessing |-> FALSE, reading |-> 0]

(* processQueue() up to its await, or to its end when it does not await *)
ProcessQueueOf(w) ==
  LET queued == {k \in 1..Len(w.photoQueue) : w.photoQueue[k] = "queued"}
  IN IF w.isProcessing \/ Len(w.photoQueue) = 0 \/ queued = {}
     THEN w
     ELSE [w EXCEPT !.isProcessing = TRUE, !.photoQueue[Min(queued)] = "processing"]

(* The change handler of the file input: a read is started for each file   *)
(* and processQueue is called.                                             *)
FileInputChange ==
  /\ \E files \in 1..MaxFiles :
       /\ Len(wc.photoQueue) + wc.reading + files <= MaxPhotos
       /\ wc' = ProcessQueueOf([wc EXCEPT !.reading = @ + files])
  /\ UNCHANGED <<given, text, now, rFields, rV2, prevV2, rHook, hook>>

(* reader.onload: addPhotoToQueue *)
ReaderOnload ==
  /\ wc.reading > 0
  /\ wc' = [wc EXCEPT !.reading = @ - 1, !.photoQueue = Append(@, "queued")]
  /\ UNCHANGED <<given, text, now, rFields, rV2, prevV2, rHook, hook>>

(* worker.recognize(photo.data) returns or throws: the rest of             *)
(* processQueue, which calls processQueue before it resets isProcessing.   *)
PhotoRecognized ==
  /\ \E k \in 1..Len(wc.photoQueue), status \in {"completed", "error"} :
       /\ wc.photoQueue[k] = "processing"
       /\ wc' = [ProcessQueueOf([wc EXCEPT !.photoQueue[k] = status])
                   EXCEPT !.isProcessing = FALSE]
  /\ UNCHANGED <<given, text, now, rFields, rV2, prevV2, rHook, hook>>

-----------------------------------------------------------------------------

(* The callers: each exported function called on the text, the clock       *)
(* advancing between calls.  A result variable holds <<>> before the call  *)
(* and the returned value, in a one-element sequence, after it.            *)

Start(inputs) ==
  /\ given \in inputs
  /\ text = given.text
  /\ now = Now0
  /\ rFields = <<>>
  /\ rV2 = <<>>
  /\ prevV2 = <<>>
  /\ rHook = <<>>
  /\ hook = UseScans(FALSE)
  /\ wc = SlickScan

Init == Start(Texts)

(* extractFields(text) *)
CallExtractFields ==
  /\ rFields = <<>>
  /\ rFields' = <<ExtractFields(text, now)>>
  /\ UNCHANGED <<given, text, now, rV2, prevV2, rHook, hook, wc>>

(* extractFieldsV2(text), the variant with the arbiter; prevV2 keeps the   *)
(* result of the call before.                                              *)
CallExtractFieldsV2 ==
  /\ prevV2 = <<>>
  /\ rV2' = <<ExtractFieldsV2(text, now)>>
  /\ prevV2' = rV2
  /\ UNCHANGED <<given, text, now, rFields, rHook, hook, wc>>

(* extractFieldsV2(text), the variant of the hook *)
CallHookExtractFieldsV2 ==
  /\ rHook = <<>>
  /\ rHook' = <<HookExtractFieldsV2(text, now)>>
  /\ UNCHANGED <<given, text, now, rFields, rV2, prevV2, hook, wc>>

(* A day passes. *)
Tick ==
  /\ now < Now0 + MaxTicks
  /\ now' = now + 1
  /\ UNCHANGED <<given, text, rFields, rV2, prevV2, rHook, hook, wc>>

Next == CallExtractFields \/ CallExtractFieldsV2 \/ CallHookExtractFieldsV2 \/ Tick

Spec == Init /\ [][Next]_vars

SpecRecords == Start(FullRecords \cup PartialRecords) /\ [][Next]_vars

SpecLabels == Start(LabelTexts) /\ [][Next]_vars

SpecDates == Start(DateTexts) /\ [][Next]_vars

SpecNames == Start(NameTexts) /\ [][Next]_vars

SpecSections == Start(SectionTexts) /\ [][Next]_vars

SpecIssueValid == Start(IssueValidTexts) /\ [][Next]_vars

-----------------------------------------------------------------------------
(* The useScans hook and the web component in use                          *)

InitHook ==
  /\ given = [family |-> "hook", text |-> <<>>]
  /\ text = <<>>
  /\ now = Now0
  /\ rFields = <<>>
  /\ rV2 = <<>>
  /\ prevV2 = <<>>
  /\ rHook = <<>>
  /\ hook \in {UseScans(video) : video \in BOOLEAN}
  /\ wc = SlickScan

SpecHook ==
  InitHook /\
  [][\/ AddScanToQueue(MaxScans)
     \/ AddScan(MaxScans, BOOLEAN)
     \/ ClearScans
     \/ ClearScan
     \/ SetActiveScanId
     \/ LockField
     \/ LockActivePhotoField
     \/ InitWorker
     \/ ProcessQueue
     \/ Recognized
     \/ GetORCScore
     \/ Scored
     \/ Tick]_vars

(* Scans being added and cleared, beyond the capacity of the list. *)
SpecStorage ==
  InitHook /\
  [][\/ AddScanToQueue(maxItems + MaxExtra)
     \/ AddScan(maxItems + MaxExtra, {FALSE})
     \/ ClearScans]_vars

(* The web component: every file read ends, and every call of              *)
(* worker.recognize returns or throws.                                     *)
SpecQueue ==
  /\ InitHook
  /\ [][FileInputChange \/ ReaderOnload \/ PhotoRecognized]_vars
  /\ WF_vars(ReaderOnload)
  /\ WF_vars(PhotoRecognized)

-----------------------------------------------------------------------------

(* Properties                                                              *)

AllEmpty(m) == \A f \in Fields : m[f] = <<>>

(* C1: extractFieldsV2 never raises: for every text each variant returns   *)
(* normally, with a candidate list for each of the seven fields and a      *)
(* success flag.                                                           *)
C1_NeverRaises ==
  /\ \A k \in 1..Len(rV2) :
       /\ ~rV2[k].threw
       /\ DOMAIN rV2[k].matches = Fields
       /\ rV2[k].success \in BOOLEAN
  /\ \A k \in 1..Len(rHook) :
       /\ ~rHook[k].threw
       /\ DOMAIN rHook[k].matches = Fields
       /\ rHook[k].success \in BOOLEAN

(* Both variants have returned for a text whose last line is a bare NAME   *)
(* label, the line whose successor the scanner looks at.                   *)
C1_Witness ==
  /\ rV2 # <<>>
  /\ rHook # <<>>
  /\ text = Line.Noise \o Str.Newline \o Line.Name

(* C2: for the empty string every extraction function yields an empty      *)
(* list for each field and an empty value for each resolved field, and     *)
(* every variant with a success flag returns success = false.              *)
C2_EmptyInput ==
  text = <<>> =>
    /\ \A k \in 1..Len(rFields) : AllEmpty(rFields[k].fields)
    /\ \A k \in 1..Len(rV2) :
         AllEmpty(rV2[k].matches) /\ AllEmpty(rV2[k].fields) /\ ~rV2[k].success
    /\ \A k \in 1..Len(rHook) : AllEmpty(rHook[k].matches) /\ ~rHook[k].success

(* C3: the success flag of extractFieldsV2 with the arbiter is true if and *)
(* only if the resolved name, dor, issue and valid are all non-empty,      *)
(* whatever the id, spousePartner and other are.                           *)
C3_SuccessIff ==
  \A k \in 1..Len(rV2) :
    rV2[k].success <=>
      \A f \in {"name", "dor", "issue", "valid"} : rV2[k].fields[f] # <<>>

(* A successful extraction with no id, no spousePartner and no other.      *)
C3_Witness ==
  /\ rV2 # <<>>
  /\ rV2[1].success
  /\ \A f \in {"id", "spousePartner", "other"} : rV2[1].fields[f] = <<>>

(* C4 as claimed: two extractions of the same text yield the same table,   *)
(* the same resolved values and the same success flag whenever they run.   *)
C4_SameWhenever ==
  rV2 # <<>> /\ prevV2 # <<>> =>
    /\ rV2[1].matches = prevV2[1].matches
    /\ rV2[1].fields = prevV2[1].fields
    /\ rV2[1].success = prevV2[1].success

NotByAge(x) == x.pattern # "dor-age-range"

(* C4, amended: two extractions of the same text at any two times yield    *)
(* the same candidates apart from the dor candidates of pattern            *)
(* dor-age-range, and the same resolved values apart from dor.             *)
C4_SameButAge ==
  rV2 # <<>> /\ prevV2 # <<>> =>
    /\ \A f \in Fields \ {"dor"} :
         /\ rV2[1].matches[f] = prevV2[1].matches[f]
         /\ rV2[1].fields[f] = prevV2[1].fields[f]
    /\ SelectSeq(rV2[1].matches["dor"], NotByAge)
         = SelectSeq(prevV2[1].matches["dor"], NotByAge)

(* Two extractions a day apart, the later one alone with a dor candidate   *)
(* taken from a single unlabeled date.                                     *)
C4_Witness ==
  /\ rV2 # <<>>
  /\ prevV2 # <<>>
  /\ rV2[1].createdAt # prevV2[1].createdAt
  /\ rV2[1].matches["dor"] # prevV2[1].matches["dor"]

(* A run of n digits at i of line that no word character adjoins.          *)
IsIdRun(line, i, n) ==
  /\ n >= 6 /\ n <= 8
  /\ i + n - 1 <= Len(line)
  /\ \A j \in i..(i + n - 1) : line[j] \in Digit
  /\ i > 1 => line[i - 1] \notin Letter \cup Digit \cup {"_"}
  /\ i + n <= Len(line) => line[i + n] \notin Letter \cup Digit \cup {"_"}

IdRuns(line) == {r \in (1..Len(line)) \X (6..8) : IsIdRun(line, r[1], r[2])}

FirstIdRun(line) ==
  IF IdRuns(line) = {} THEN <<>>
  ELSE LET r == CHOOSE x \in IdRuns(line) : \A y \in IdRuns(line) : x[1] <= y[1]
       IN SubSeq(line, r[1], r[1] + r[2] - 1)

(* The first run of the first line of t that has one, or the empty string. *)
ExpectedId(t) ==
  LET ls  == Split({"\n"}, t)
      has == {k \in 1..Len(ls) : IdRuns(ls[k]) # {}}
  IN IF has = {} THEN <<>> ELSE FirstIdRun(ls[Min(has)])

(* C7: the resolved id is the first word-bounded run of 6 to 8 digits of   *)
(* the first line that has one, and the empty string if no line has one.   *)
C7_FirstId ==
  /\ \A k \in 1..Len(rV2) : rV2[k].fields["id"] = ExpectedId(text)
  /\ \A k \in 1..Len(rFields) : rFields[k].fields["id"] = ExpectedId(text)

(* Both functions have resolved the id of a text whose first line holds a  *)
(* run of nine digits before two runs that qualify, and whose second line  *)
(* holds another.                                                          *)
C7_Witness ==
  /\ rV2 # <<>>
  /\ rFields # <<>>
  /\ text = Line.IdDigits \o Str.Newline \o Line.CyDiId
  /\ rV2[1].fields["id"] = <<"6", "5", "4", "3", "2", "1">>

(* v is the value of the first candidate of maximal confidence of list.    *)
IsBest(list, v) ==
  \E k \in 1..Len(list) :
    /\ list[k].value = v
    /\ \A j \in 1..Len(list) : list[j].confidence <= list[k].confidence
    /\ \A j \in 1..(k - 1) : list[j].confidence < list[k].confidence

(* C10: for each field the resolved value is the value of the candidate of *)
(* maximal confidence produced earliest in the scan, and it is the empty   *)
(* string exactly when the field has no candidate.                         *)
C10_BestCandidate ==
  \A k \in 1..Len(rV2) : \A f \in Fields :
    IF rV2[k].scanned[f] = <<>> THEN rV2[k].fields[f] = <<>>
    ELSE rV2[k].fields[f] # <<>> /\ IsBest(rV2[k].scanned[f], rV2[k].fields[f])

(* A field whose second candidate outranks its first.                      *)
C10_Witness ==
  /\ rV2 # <<>>
  /\ Len(rV2[1].scanned["name"]) = 2
  /\ rV2[1].scanned["name"][1].confidence < rV2[1].scanned["name"][2].confidence
  /\ rV2[1].fields["name"] = rV2[1].scanned["name"][2].value

(* C5: for the full labeled record of name n, dates d1, d2, d3, spouse s   *)
(* and dependents c1..ck the extraction resolves name = n, dor = d1,       *)
(* issue = d2, valid = d3, spousePartner = s, other = the dependents       *)
(* joined with ", ", and success = true.                                   *)
C5_FullRecord ==
  given.family = "record" =>
    LET expected == [f \in Fields \ {"id"} |->
                       IF f = "other" THEN Join(given.other, Str.CommaSpace) ELSE given[f]]
    IN /\ \A k \in 1..Len(rV2) :
            /\ \A f \in Fields \ {"id"} : rV2[k].fields[f] = expected[f]
            /\ rV2[k].success
       /\ \A k \in 1..Len(rFields) :
            \A f \in Fields \ {"id"} : rFields[k].fields[f] = expected[f]

(* C6: for the partial record of name n and date d, closed by Licence or   *)
(* not, the resolved name is n and dor is d, issue, valid, spousePartner   *)
(* and other are empty, and success = false.                               *)
C6_PartialRecord ==
  given.family = "partial" =>
    /\ \A k \in 1..Len(rV2) :
         /\ rV2[k].fields["name"] = given.name
         /\ rV2[k].fields["dor"] = given.dor
         /\ \A f \in {"issue", "valid", "spousePartner", "other"} : rV2[k].fields[f] = <<>>
         /\ ~rV2[k].success
    /\ \A k \in 1..Len(rFields) :
         /\ rFields[k].fields["name"] = given.name
         /\ rFields[k].fields["dor"] = given.dor
         /\ \A f \in {"issue", "valid", "spousePartner", "other"} :
              rFields[k].fields[f] = <<>>

(* C8: for a text of bare label lines extractFieldsV2 with the arbiter     *)
(* produces no candidate for any field; the seven resolved fields are      *)
(* empty and success = false.                                              *)
C8_BareLabelsV2 ==
  given.family = "labels" =>
    \A k \in 1..Len(rV2) :
      /\ AllEmpty(rV2[k].scanned)
      /\ AllEmpty(rV2[k].matches)
      /\ AllEmpty(rV2[k].fields)
      /\ ~rV2[k].success

(* The arbiter has returned for a bare NAME line followed by another bare  *)
(* label.                                                                  *)
C8_Witness ==
  /\ rV2 # <<>>
  /\ given.family = "labels"
  /\ given.lines = <<Str.Name, Str.Dor>>

(* C9: in extractFields a label that stands alone on its line leaves its   *)
(* field empty; the following line is never taken as its value.            *)
C9_BareLabelsFields ==
  given.family = "labels" =>
    \A k \in 1..Len(rFields) :
      \A f \in {"name", "dor", "issue", "valid", "spousePartner"} :
        rFields[k].fields[f] = <<>>

(* The tables the first pass has produced so far, in either variant.       *)
Scanned ==
  {rHook[k].matches : k \in 1..Len(rHook)} \cup {rV2[k].scanned : k \in 1..Len(rV2)}

(* The candidate lists hold the values vs, in this order, at confidences cs. *)
Holds(list, vs, cs) ==
  /\ Len(list) = Len(vs)
  /\ \A k \in 1..Len(list) : list[k].value = vs[k] /\ list[k].confidence = cs[k]

(* C11: a line with a range has one valid candidate, "D1 - D2" at 0.95,    *)
(* and nothing else made of the two dates of the range: its dor and issue  *)
(* candidates are the two other dates of the line, in one order or the     *)
(* other, when the line has exactly two other dates, and none otherwise.   *)
C11_RangeOnly ==
  given.range # <<>> =>
    \A m \in Scanned :
      /\ Holds(m["valid"],
               <<normalizeDate(given.range[1]) \o Str.RangeSep
                 \o normalizeDate(given.range[2])>>, <<95>>)
      /\ IF Len(given.dates) = 2
         THEN \E a, b \in 1..2 :
                /\ a # b
                /\ Holds(m["dor"], <<normalizeDate(given.dates[a])>>, <<90>>)
                /\ Holds(m["issue"], <<normalizeDate(given.dates[b])>>, <<85>>)
         ELSE m["dor"] = <<>> /\ m["issue"] = <<>>

(* The day of a date token read as day/month/year, in days from 01/01/1970. *)
DayMonthYear(d) ==
  LET parts == Split({"/"}, normalizeDate(d))
  IN DaysFromCivil(ToNumber(parts[3]), ToNumber(parts[2]), ToNumber(parts[1]))

(* The dates of the line left once the dates of its range are removed.     *)
Remaining == SelectSeq(given.dates, LAMBDA d : \A k \in 1..Len(given.range) : d # given.range[k])

(* The dates ds from the oldest to the newest, read as day/month/year.     *)
IsChronological(ds) ==
  \A k \in 1..Len(ds) - 1 : DayMonthYear(ds[k]) <= DayMonthYear(ds[k + 1])

(* C12: when two dates are left beside the range of a line, the older of   *)
(* the two by day/month/year is the dor candidate at 0.9 and the newer the *)
(* issue candidate at 0.85, in whichever order the line has them.          *)
C12_TwoBesideRange ==
  (given.range # <<>> /\ Len(Remaining) = 2) =>
    \A m \in Scanned :
      \E a, b \in 1..2 :
        /\ a # b
        /\ IsChronological(<<Remaining[a], Remaining[b]>>)
        /\ Holds(m["dor"], <<normalizeDate(Remaining[a])>>, <<90>>)
        /\ Holds(m["issue"], <<normalizeDate(Remaining[b])>>, <<85>>)

(* C13: on a line of three dates and no range the oldest by day/month/year *)
(* is the dor candidate at 0.9, the middle one the issue candidate at 0.85 *)
(* and the newest the valid candidate at 0.8, in whichever order the line  *)
(* has them.                                                               *)
C13_ThreeDates ==
  (given.range = <<>> /\ Len(given.dates) = 3) =>
    \A m \in Scanned :
      \E a, b, c \in 1..3 :
        /\ {a, b, c} = 1..3
        /\ IsChronological(<<given.dates[a], given.dates[b], given.dates[c]>>)
        /\ Holds(m["dor"], <<normalizeDate(given.dates[a])>>, <<90>>)
        /\ Holds(m["issue"], <<normalizeDate(given.dates[b])>>, <<85>>)
        /\ Holds(m["valid"], <<normalizeDate(given.dates[c])>>, <<80>>)

(* The dor candidates due for the single date d of a line scanned at tnow: *)
(* one at 0.8 when d, read as day/month/year, lies more than 18 and less   *)
(* than 100 years of 365 days before tnow, and none otherwise.             *)
SingleDateDor(m, d, tnow) ==
  IF /\ tnow - DayMonthYear(d) > 18 * DaysPerYear
     /\ tnow - DayMonthYear(d) < 100 * DaysPerYear
  THEN Holds(m["dor"], <<normalizeDate(d)>>, <<80>>)
  ELSE m["dor"] = <<>>

(* C14: a line of one date yields a dor candidate at 0.8, the normalized   *)
(* date, exactly when the date read as day/month/year lies in the band of  *)
(* 18 to 100 years before the time of the scan.                            *)
C14_SingleDate ==
  (given.range = <<>> /\ Len(given.dates) = 1) =>
    /\ \A k \in 1..Len(rV2) : SingleDateDor(rV2[k].scanned, given.dates[1], rV2[k].createdAt)
    /\ \A k \in 1..Len(rHook) :
         \E tnow \in Now0..now : SingleDateDor(rHook[k].matches, given.dates[1], tnow)

(* s has the form DD/MM/YYYY: two digits, two digits and four digits. *)
IsDdMmYyyy(s) ==
  /\ Len(s) = 10
  /\ \A k \in 1..10 : IF k \in {3, 6} THEN s[k] = "/" ELSE s[k] \in Digit

(* s is two dates of the form DD/MM/YYYY with " - " between them. *)
IsDdMmYyyyRange(s) ==
  /\ Len(s) = 23
  /\ IsDdMmYyyy(SubSeq(s, 1, 10))
  /\ SubSeq(s, 11, 13) = Str.RangeSep
  /\ IsDdMmYyyy(SubSeq(s, 14, 23))

(* C15: every dor and issue candidate is a date of the form DD/MM/YYYY,    *)
(* and every valid candidate is such a date or a range of two such dates.  *)
C15_DdMmYyyy ==
  \A m \in Scanned :
    /\ \A f \in {"dor", "issue"} : \A k \in 1..Len(m[f]) : IsDdMmYyyy(m[f][k].value)
    /\ \A k \in 1..Len(m["valid"]) :
         IsDdMmYyyy(m["valid"][k].value) \/ IsDdMmYyyyRange(m["valid"][k].value)

(* The line of the text that candidate x was taken from. *)
LineOf(x) == At(Lines(text), x.line)

(* C16: a name candidate has confidence 1.0 exactly when the NAME label,   *)
(* in any case, with the name beside it produced it, 0.95 exactly when it  *)
(* is the line after a bare NAME label, and 0.9 exactly when a name before *)
(* an id produced it.                                                      *)
C16_NameConfidence ==
  \A m \in Scanned :
    \A k \in 1..Len(m["name"]) :
      LET x       == m["name"][k]
          labeled == x.pattern = "name-pattern" /\ Test(Re.NameLabel, LineOf(x))
          beside  == x.pattern = "name-pattern" /\ ~Test(Re.NameLabel, LineOf(x))
                       /\ Test(Re.NameId, LineOf(x))
      IN /\ x.confidence = 100 <=> labeled
         /\ x.confidence = 95 <=> x.pattern = "name-next-line"
         /\ x.confidence = 90 <=> beside

(* The dependents the other value of result r is made of. *)
Dependents(r) ==
  IF r.fields["other"] = <<>> THEN {}
  ELSE {Trim(d) : d \in Range(Split({","}, r.fields["other"]))}

(* The lines (1-based) that are an OTHER header, and those that are the    *)
(* header of any section.                                                  *)
OtherHeaders(ls) == {h \in 1..Len(ls) : Test(Re.OtherOnly, ls[h])}
SectionHeaders(ls) == {e \in 1..Len(ls) : Test(Re.SectionEnd, ls[e])}

(* Line p lies in the section of the OTHER header h: after h, with no      *)
(* section header from the line after h to p.                              *)
InSectionOf(ls, h, p) ==
  h \in OtherHeaders(ls) /\ h < p /\ SectionHeaders(ls) \cap (h + 1)..p = {}

(* C17 as stated: once the text has an OTHER header, every dependent is a  *)
(* line found before the header that ends the first OTHER section.         *)
C17_FirstSectionOnly ==
  \A k \in 1..Len(rV2) :
    LET ls == Lines(text)
    IN OtherHeaders(ls) # {} =>
         \A d \in Dependents(rV2[k]) :
           \E p \in 1..Len(ls) :
             /\ ls[p] = d
             /\ p < Min(OtherHeaders(ls)) \/ InSectionOf(ls, Min(OtherHeaders(ls)), p)

(* C17, amended: once the text has an OTHER header, every dependent is a   *)
(* line found before the first OTHER header or in the section of some      *)
(* OTHER header, between that header and the next section header.          *)
C17_SectionsOnly ==
  \A k \in 1..Len(rV2) :
    LET ls == Lines(text)
    IN OtherHeaders(ls) # {} =>
         \A d \in Dependents(rV2[k]) :
           \E p \in 1..Len(ls) :
             /\ ls[p] = d
             /\ p < Min(OtherHeaders(ls)) \/ \E h \in OtherHeaders(ls) : InSectionOf(ls, h, p)

(* An extraction of a text whose only OTHER section is closed by a header  *)
(* and followed by a line shaped like a dependent, which is not collected. *)
C17_Witness ==
  /\ rV2 # <<>>
  /\ LET ls == Lines(text)
     IN /\ Cardinality(OtherHeaders(ls)) = 1
        /\ \E p \in 1..Len(ls) :
             /\ p > Min(OtherHeaders(ls))
             /\ ~InSectionOf(ls, Min(OtherHeaders(ls)), p)
             /\ Test(Re.BareName, ls[p]) /\ ~Test(Re.KeywordStart, ls[p])
             /\ ~HasValue(rV2[1].scanned["name"], ls[p])
             /\ ~HasValue(rV2[1].scanned["spousePartner"], ls[p])
             /\ ls[p] \notin Dependents(rV2[1])

(* C18: when the text has an OTHER header, every dependent of the other    *)
(* value is a line of an explicit section and the other candidate has      *)
(* confidence 1.0; when it has none, the other candidate has confidence    *)
(* 0.8.                                                                    *)
C18_ImplicitOnlyWithoutHeader ==
  \A k \in 1..Len(rV2) :
    LET ls   == Lines(text)
        list == rV2[k].scanned["other"]
    IN IF OtherHeaders(ls) # {}
       THEN /\ \A c \in 1..Len(list) : list[c].confidence = 100
            /\ \A d \in Dependents(rV2[k]) :
                 \E p \in 1..Len(ls) :
                   ls[p] = d /\ \E h \in OtherHeaders(ls) : InSectionOf(ls, h, p)
       ELSE \A c \in 1..Len(list) : list[c].confidence = 80

(* C19: no dependent of the other value is the resolved name or the        *)
(* resolved spouse/partner of the same extraction.                         *)
C19_NoNameAmongDependents ==
  \A k \in 1..Len(rV2) :
    /\ rV2[k].fields["name"] \notin Dependents(rV2[k])
    /\ rV2[k].fields["spousePartner"] \notin Dependents(rV2[k])

(* An extraction with dependents of a text in which the resolved name and  *)
(* the resolved spouse/partner are each a line of their own after the      *)
(* spouse/partner line, where the scan for dependents meets them.          *)
C19_Witness ==
  /\ rV2 # <<>>
  /\ Dependents(rV2[1]) # {}
  /\ LET ls == Lines(text)
     IN \A f \in {"name", "spousePartner"} :
          \E p \in 1..Len(ls) :
            /\ ls[p] = rV2[1].fields[f]
            /\ \E q \in 1..(p - 1) : Test(Re.SpouseStart, ls[q])

(* The pattern ids that name each field: id-*, name-*, dor-*, issue-*,     *)
(* valid-*, spouse-* and other-*.                                          *)
PatternIds ==
  [id |-> {"id-pattern"},
   name |-> {"name-pattern", "name-next-line"},
   spousePartner |-> {"spouse-pattern"},
   dor |-> {"dor-labeled", "dor-with-range", "dor-position-oldest", "dor-age-range"},
   issue |-> {"issue-labeled", "issue-with-range", "issue-position-middle"},
   valid |-> {"valid-labeled", "valid-range", "valid-position-newest"},
   other |-> {"other-section", "other-implicit"}]

(* The tables that have been returned so far, as scanned and as returned.  *)
Tables == Scanned \cup {rV2[k].matches : k \in 1..Len(rV2)}

(* C20: every candidate in the list of a field carries a pattern id that   *)
(* names that field.                                                       *)
C20_PatternNamesField ==
  \A m \in Tables :
    \A f \in Fields : \A k \in 1..Len(m[f]) : m[f][k].pattern \in PatternIds[f]

(* A table with candidates in the lists of three fields or more, one of    *)
(* them a spouse/partner.                                                  *)
C20_Witness ==
  \E m \in Tables :
    /\ Cardinality({f \in Fields : m[f] # <<>>}) >= 3
    /\ m["spousePartner"] # <<>>

(* C21: in every table returned to the caller the candidates of each field *)
(* stand in scan order, their line numbers never decreasing.               *)
C21_ScanOrder ==
  \A m \in {rV2[k].matches : k \in 1..Len(rV2)} \cup {rHook[k].matches : k \in 1..Len(rHook)} :
    \A f \in Fields :
      \A j, k \in 1..Len(m[f]) : j < k => m[f][j].line <= m[f][k].line

(* C25: a text of NAME, ISSUE and VALID lines, none with a DOR label,      *)
(* yields no dor candidate and resolves dor to the empty string.           *)
C25_NoDorFromLabeledLines ==
  /\ \A m \in Scanned : m["dor"] = <<>>
  /\ \A k \in 1..Len(rV2) : rV2[k].fields["dor"] = <<>>

(* C22: in the useScans hook at most one worker.recognize call is in       *)
(* flight at any time, whether started by the queue or by the polling of   *)
(* the live OCR score.                                                     *)
C22_OneRecognition == Len(hook.job) + hook.polls <= 1

(* The scans before the last operation that had the id of that operation. *)
Before == SelectSeq(hook.last.before, LAMBDA s : s.id = hook.last.id)

(* The scans that now have the id of the last operation. *)
After == SelectSeq(hook.scans, LAMBDA s : s.id = hook.last.id)

(* processImage has just completed a scan. *)
Completed ==
  /\ hook.last.op = "processImage"
  /\ ~hook.crashed
  /\ Len(Before) = 1
  /\ Len(After) = 1
  /\ After[1].status = "completed"

(* C23: when processImage completes a scan, every unlocked field of the    *)
(* scan is set to the value of the highest-confidence candidate found for  *)
(* the field, or to the empty string when there is none.                   *)
C23_HighestConfidence ==
  Completed =>
    \A f \in Fields :
      ~Before[1].fields[f].locked =>
        IF After[1].matches[f] = <<>>
        THEN After[1].fields[f].value = <<>>
        ELSE IsBest(After[1].matches[f], After[1].fields[f].value)

(* C24: processImage leaves every locked field of the processed scan with  *)
(* its value and its locked flag, and keeps the createdAt of the fields.   *)
C24_LockedKept ==
  Completed =>
    /\ \A f \in Fields : Before[1].fields[f].locked => After[1].fields[f] = Before[1].fields[f]
    /\ After[1].fieldsCreatedAt = Before[1].fieldsCreatedAt

(* A scan with a locked name has been completed, on a later day than it    *)
(* was created, from a text with another name.                             *)
C24_Witness ==
  /\ Completed
  /\ Before[1].fields["name"].locked
  /\ After[1].matches["name"] # <<>>
  /\ After[1].matches["name"][1].value # Before[1].fields["name"].value
  /\ After[1].fields["id"].value # <<>>
  /\ Before[1].fieldsCreatedAt < now

(* The moves of a status: queued -> processing -> completed or error. *)
Moves ==
  {<<"queued", "queued">>, <<"queued", "processing">>, <<"processing", "processing">>,
   <<"processing", "completed">>, <<"processing", "error">>,
   <<"completed", "completed">>, <<"error", "error">>}

C28_AtMostMaxItems ==
  /\ Len(hook.scans) <= maxItems
  /\ (hook.last.op \in {"addScanToQueue", "addScan"} /\ Len(hook.last.before) = maxItems) =>
       Len(After) = 1 /\ hook.scans = Tail(hook.last.before) \o After

(* C29: clearScan(id) removes the scan with that id and leaves every other *)
(* scan in place, unchanged and in the same order.                         *)
C29_RemovesThatScan ==
  (hook.last.op = "clearScan" /\ ~hook.crashed) =>
    hook.scans = SelectSeq(hook.last.before, LAMBDA s : s.id # hook.last.id)

(* C30: after lockField(scanId, field), or lockActivePhotoField(field)     *)
(* with scanId the active scan, the field of that scan is locked with its  *)
(* value, everything else is as before, and the scans are still a list     *)
(* the other operations can use.                                           *)
C30_FieldLocked ==
  (/\ Before # <<>>
   /\ \/ hook.last.op = "lockField"
      \/ hook.last.op = "lockActivePhotoField" /\ hook.activeScanId = hook.last.id) =>
    /\ hook.isArray
    /\ ~hook.crashed
    /\ hook.scans = [k \in 1..Len(hook.last.before) |->
                       IF hook.last.before[k].id = hook.last.id
                       THEN [hook.last.before[k] EXCEPT !.fields[hook.last.field].locked = TRUE]
                       ELSE hook.last.before[k]]

(* C26: in the SlickScan web component every photo in the queue with       *)
(* status 'queued' eventually has status 'completed' or 'error', with no   *)
(* further user action, when every OCR call returns or throws.             *)
C26_QueuedEventuallyDone ==
  \A k \in 1..MaxPhotos :
    (Len(wc.photoQueue) >= k /\ wc.photoQueue[k] = "queued")
      ~> (Len(wc.photoQueue) >= k /\ wc.photoQueue[k] \in {"completed", "error"})

====
